---- MODULE Spec2Model ----
(***************************************************************************)
(* The Excel image/text extraction script (src/function_app.py) as a state *)
(* machine: relationship resolution over the xlsx package, the anchor scan *)
(* that saves images and builds image_map, the concatenation of the sheets *)
(* into df_all, melt_merged_rows, and the JSON output loop.                *)
(***************************************************************************)
EXTENDS Integers, Sequences, FiniteSets, TLC

VARIABLES
    namelist,              \* the package: ordered parts [dir, name, rels, content]
    excel_file,            \* pd.read_excel(sheet_name=None): <<[name, rows]>> in workbook order
    pc,                    \* position of the script
    err,                   \* the exception that ended the run, or "none"
    sheet_id_to_name,      \* dict r:id -> sheet name
    rId_to_sheet_file,     \* dict Id -> sheet file name (insertion ordered)
    sheet_to_drawing,      \* dict sheet file -> drawing file
    drawing_to_rId_image,  \* dict drawing file -> dict embed id -> media file
    di,                    \* index of the drawing part being processed
    ai,                    \* index of the anchor being processed
    sheet_name,            \* sheet resolved for the current drawing
    image_map,             \* dict (sheet, row) -> list of saved paths (insertion ordered)
    image_files,           \* image output directory: dict save name -> bytes
    registered,            \* log of the images saved, in scan order
    df_all,                \* the concatenated table
    df_filled,             \* melt_merged_rows' forward-filled copy with grp and original_row
    organized_df,          \* the melted table
    ri,                    \* index of the record being written
    written,               \* the records dumped so far, in loop order
    json_files,            \* json output directory: dict file name -> record
    col_num,               \* colnum_to_excel_col: the loop variable
    result,                \* colnum_to_excel_col: the letters built so far
    codec_n,               \* colnum_to_excel_col: the argument
    codec_pc,              \* colnum_to_excel_col: "idle", "loop" or "done"
    previous               \* the output directories as the earlier run left them

vars == <<namelist, excel_file, pc, err, sheet_id_to_name, rId_to_sheet_file,
          sheet_to_drawing, drawing_to_rId_image, di, ai, sheet_name, image_map,
          image_files, registered, df_all, df_filled, organized_df, ri, written,
          json_files, col_num, result, codec_n, codec_pc, previous>>

\* what a run reads and never writes: the workbook, and the record of the
\* earlier run
inputVars == <<namelist, excel_file, previous>>
resolveVars == <<sheet_id_to_name, rId_to_sheet_file, sheet_to_drawing,
                 drawing_to_rId_image>>
scanVars == <<di, ai, sheet_name, image_map, image_files, registered>>
tableVars == <<df_all, df_filled, organized_df>>
outputVars == <<ri, written, json_files>>
codecVars == <<col_num, result, codec_n, codec_pc>>

----------------------------------------------------------------------------
(* Python dicts: insertion-ordered sequences of [k, v]. *)

RECURSIVE DictIndex(_, _, _)
DictIndex(d, k, i) ==
    IF i > Len(d) THEN 0
    ELSE IF d[i].k = k THEN i
    ELSE DictIndex(d, k, i + 1)

DictHas(d, k) == DictIndex(d, k, 1) # 0

\* d[k]; only used where the key is present
DictAt(d, k) == d[DictIndex(d, k, 1)].v

\* d.get(k, default)
DictGet(d, k, default) == IF DictHas(d, k) THEN DictAt(d, k) ELSE default

\* d[k] = v: a present key keeps its position, a new key goes last
DictSet(d, k, v) ==
    IF DictHas(d, k)
    THEN [d EXCEPT ![DictIndex(d, k, 1)] = [k |-> k, v |-> v]]
    ELSE Append(d, [k |-> k, v |-> v])

Range(s) == {s[i] : i \in 1..Len(s)}

\* "".join(parts) and sep.join(parts)
RECURSIVE JoinStr(_, _)
JoinStr(parts, sep) ==
    IF Len(parts) = 0 THEN ""
    ELSE IF Len(parts) = 1 THEN parts[1]
    ELSE parts[1] \o sep \o JoinStr(Tail(parts), sep)

RECURSIVE Flatten(_)
Flatten(ss) == IF Len(ss) = 0 THEN <<>> ELSE ss[1] \o Flatten(Tail(ss))

----------------------------------------------------------------------------
(* colnum_to_excel_col *)

\* the column indexes the codec is checked on: 0..MaxCol
MaxCol == 10000

Alphabet == <<"A", "B", "C", "D", "E", "F", "G", "H", "I", "J", "K", "L", "M",
              "N", "O", "P", "Q", "R", "S", "T", "U", "V", "W", "X", "Y", "Z">>

\* chr(k + ord("A")) for k in 0..25
Chr(k) == Alphabet[k + 1]

\* col_num = col_num // 26 - 1
NextCol(c) == (c \div 26) - 1

\* the loop body with the new letter put after the letters built so far
LoopBodyAppend(c, letters) ==
    [col_num |-> NextCol(c), result |-> letters \o <<Chr(c % 26)>>]

\* one pass through the body of the while loop, on the letters as a list
LoopBody(c, letters) ==
    [col_num |-> NextCol(c), result |-> <<Chr(c % 26)>> \o letters]

RECURSIVE LoopFrom(_, _)
LoopFrom(c, letters) ==
    IF c >= 0
    THEN LET s == LoopBody(c, letters) IN LoopFrom(s.col_num, s.result)
    ELSE letters

\* the letters of colnum_to_excel_col(n), as a list of one-character strings
ColLetters(n) == LoopFrom(n, <<>>)

colnum_to_excel_col(n) == JoinStr(ColLetters(n), "")

CodecInit ==
    /\ codec_n \in 0..MaxCol
    /\ col_num = codec_n
    /\ result = <<>>
    /\ codec_pc = "loop"

CodecIdle ==
    /\ codec_n = 0
    /\ col_num = 0
    /\ result = <<>>
    /\ codec_pc = "idle"

\* while col_num >= 0: one iteration
CodecLoop ==
    /\ codec_pc = "loop"
    /\ col_num >= 0
    /\ LET s == LoopBody(col_num, result) IN
         /\ col_num' = s.col_num
         /\ result' = s.result
    /\ UNCHANGED <<codec_n, codec_pc>>

\* the loop condition fails: return result
CodecReturn ==
    /\ codec_pc = "loop"
    /\ col_num < 0
    /\ codec_pc' = "done"
    /\ UNCHANGED <<codec_n, col_num, result>>

----------------------------------------------------------------------------
(* The package and its parts *)

Part(dir, name, rels, content) ==
    [dir |-> dir, name |-> name, rels |-> rels, content |-> content]

\* a <Relationship Id Type Target>; Type is the last segment of the type URI,
\* Target the list of the target path's segments
Rel(id, type, target) == [Id |-> id, Type |-> type, Target |-> target]

\* a <sheet r:id name> of xl/workbook.xml
SheetDecl(rid, name) == [rid |-> rid, name |-> name]

\* a twoCellAnchor: from/col, from/row, whether it holds an a:blip, and the
\* blip's r:embed ("None" when the attribute is absent)
Anchor(col, row, blip, embed) ==
    [col |-> col, row |-> row, blip |-> blip, embed |-> embed]

\* path.split("/")[-1] and os.path.basename(path)
Basename(target) == target[Len(target)]

HasPart(names, dir, name, rels) ==
    \E i \in 1..Len(names) :
        names[i].dir = dir /\ names[i].name = name /\ names[i].rels = rels

PartAt(names, dir, name, rels) ==
    names[CHOOSE i \in 1..Len(names) :
            names[i].dir = dir /\ names[i].name = name /\ names[i].rels = rels]

\* f.startswith("xl/worksheets/_rels/") and f.endswith(".xml.rels")
IsSheetRels(p) == p.dir = "xl/worksheets/_rels" /\ p.rels

\* f.startswith("xl/drawings/_rels/") and f.endswith(".xml.rels")
IsDrawingRels(p) == p.dir = "xl/drawings/_rels" /\ p.rels

\* f.startswith("xl/drawings/drawing") and f.endswith(".xml")
IsDrawing(p) == p.dir = "xl/drawings" /\ ~p.rels

DrawingParts(names) == SelectSeq(names, IsDrawing)

----------------------------------------------------------------------------
(* Relationship resolution *)

RECURSIVE SheetIdToName(_, _)
SheetIdToName(sheets, d) ==
    IF Len(sheets) = 0 THEN d
    ELSE SheetIdToName(Tail(sheets), DictSet(d, sheets[1].rid, sheets[1].name))

RECURSIVE RIdToSheetFile(_, _)
RIdToSheetFile(rels, d) ==
    IF Len(rels) = 0 THEN d
    ELSE RIdToSheetFile(Tail(rels),
            IF rels[1].Type = "worksheet"
            THEN DictSet(d, rels[1].Id, Basename(rels[1].Target))
            ELSE d)

RECURSIVE DrawingOfSheet(_, _, _)
DrawingOfSheet(rels, sheet_file, d) ==
    IF Len(rels) = 0 THEN d
    ELSE DrawingOfSheet(Tail(rels), sheet_file,
            IF rels[1].Type = "drawing"
            THEN DictSet(d, sheet_file, Basename(rels[1].Target))
            ELSE d)

RECURSIVE SheetToDrawing(_, _)
SheetToDrawing(names, d) ==
    IF Len(names) = 0 THEN d
    ELSE SheetToDrawing(Tail(names),
            IF IsSheetRels(names[1])
            THEN DrawingOfSheet(names[1].content, names[1].name, d)
            ELSE d)

RECURSIVE RIdToImage(_, _)
RIdToImage(rels, d) ==
    IF Len(rels) = 0 THEN d
    ELSE RIdToImage(Tail(rels),
            IF rels[1].Type = "image"
            THEN DictSet(d, rels[1].Id, Basename(rels[1].Target))
            ELSE d)

RECURSIVE DrawingToRIdImage(_, _)
DrawingToRIdImage(names, d) ==
    IF Len(names) = 0 THEN d
    ELSE DrawingToRIdImage(Tail(names),
            IF IsDrawingRels(names[1])
            THEN DictSet(d, names[1].name, RIdToImage(names[1].content, <<>>))
            ELSE d)

\* with z.open("xl/workbook.xml"): a missing part raises KeyError
ReadWorkbook ==
    /\ pc = "workbook"
    /\ IF HasPart(namelist, "xl", "workbook.xml", FALSE)
       THEN /\ sheet_id_to_name' =
                 SheetIdToName(PartAt(namelist, "xl", "workbook.xml", FALSE).content, <<>>)
            /\ pc' = "workbook_rels"
            /\ err' = err
       ELSE /\ err' = "KeyError"
            /\ pc' = "error"
            /\ sheet_id_to_name' = sheet_id_to_name
    /\ UNCHANGED <<inputVars, rId_to_sheet_file, sheet_to_drawing,
                   drawing_to_rId_image, scanVars, tableVars, outputVars, codecVars>>

\* the workbook's relationship file read as empty when the part is missing
ReadWorkbookRelsLenient ==
    /\ pc = "workbook_rels"
    /\ rId_to_sheet_file' =
         IF HasPart(namelist, "xl/_rels", "workbook.xml", TRUE)
         THEN RIdToSheetFile(PartAt(namelist, "xl/_rels", "workbook.xml", TRUE).content, <<>>)
         ELSE <<>>
    /\ pc' = "sheet_rels"
    /\ UNCHANGED <<inputVars, err, sheet_id_to_name, sheet_to_drawing,
                   drawing_to_rId_image, scanVars, tableVars, outputVars, codecVars>>

\* with z.open("xl/_rels/workbook.xml.rels")
ReadWorkbookRels ==
    /\ pc = "workbook_rels"
    /\ IF HasPart(namelist, "xl/_rels", "workbook.xml", TRUE)
       THEN /\ rId_to_sheet_file' =
                 RIdToSheetFile(PartAt(namelist, "xl/_rels", "workbook.xml", TRUE).content, <<>>)
            /\ pc' = "sheet_rels"
            /\ err' = err
       ELSE /\ err' = "KeyError"
            /\ pc' = "error"
            /\ rId_to_sheet_file' = rId_to_sheet_file
    /\ UNCHANGED <<inputVars, sheet_id_to_name, sheet_to_drawing,
                   drawing_to_rId_image, scanVars, tableVars, outputVars, codecVars>>

\* for f in namelist: the worksheets' relationship files
ScanSheetRels ==
    /\ pc = "sheet_rels"
    /\ sheet_to_drawing' = SheetToDrawing(namelist, <<>>)
    /\ pc' = "drawing_rels"
    /\ UNCHANGED <<inputVars, err, sheet_id_to_name, rId_to_sheet_file,
                   drawing_to_rId_image, scanVars, tableVars, outputVars, codecVars>>

\* for f in namelist: the drawings' relationship files
ScanDrawingRels ==
    /\ pc = "drawing_rels"
    /\ drawing_to_rId_image' = DrawingToRIdImage(namelist, <<>>)
    /\ pc' = "drawings"
    /\ UNCHANGED <<inputVars, err, sheet_id_to_name, rId_to_sheet_file,
                   sheet_to_drawing, scanVars, tableVars, outputVars, codecVars>>

----------------------------------------------------------------------------
(* Anchor scan: image extraction and image_map *)

\* image_output_dir / save_name as a string
ImageDir == "json_output/image/"

\* the first rId of rId_to_sheet_file.items() whose sheet file has this
\* drawing, or "None": the generator handed to next()
RECURSIVE FirstRIdFor(_, _, _)
FirstRIdFor(items, s2d, drawing_name) ==
    IF Len(items) = 0 THEN "None"
    ELSE IF DictGet(s2d, items[1].v, "None") = drawing_name THEN items[1].k
    ELSE FirstRIdFor(Tail(items), s2d, drawing_name)

\* the cell label numbered from the anchor's zero-based row
CellNameZeroBased(col, row) == colnum_to_excel_col(col) \o ToString(row)

\* cell_name = f"{colnum_to_excel_col(col)}{row + 1}"
CellName(col, row) == colnum_to_excel_col(col) \o ToString(row + 1)

\* save_name = f"{sheet_name}_{cell_name}_{image_file}"
SaveName(sheet, cell, image_file) == sheet \o "_" \o cell \o "_" \o image_file

\* image_map.setdefault(key, []).append(path)
MapAppend(m, key, path) == DictSet(m, key, Append(DictGet(m, key, <<>>), path))

\* for drawing_xml in [...]: the sheet of the next drawing part; the lookup
\* sheet_id_to_name[rId] raises KeyError for an rId the workbook does not declare
ResolveDrawing ==
    /\ pc = "drawings"
    /\ di <= Len(DrawingParts(namelist))
    /\ LET drawing_name == DrawingParts(namelist)[di].name
           rId == FirstRIdFor(rId_to_sheet_file, sheet_to_drawing, drawing_name)
       IN IF rId = "None"
          THEN /\ di' = di + 1
               /\ UNCHANGED <<pc, err, sheet_name, ai>>
          ELSE IF ~DictHas(sheet_id_to_name, rId)
          THEN /\ err' = "KeyError"
               /\ pc' = "error"
               /\ UNCHANGED <<di, sheet_name, ai>>
          ELSE IF DictAt(sheet_id_to_name, rId) = ""
          THEN /\ di' = di + 1
               /\ UNCHANGED <<pc, err, sheet_name, ai>>
          ELSE /\ sheet_name' = DictAt(sheet_id_to_name, rId)
               /\ ai' = 1
               /\ pc' = "anchors"
               /\ UNCHANGED <<di, err>>
    /\ UNCHANGED <<inputVars, resolveVars, image_map, image_files, registered,
                   tableVars, outputVars, codecVars>>

\* for anchor in tree.findall("xdr:twoCellAnchor", ns): one anchor
ProcessAnchor ==
    /\ pc = "anchors"
    /\ ai <= Len(DrawingParts(namelist)[di].content)
    /\ LET drawing_name == DrawingParts(namelist)[di].name
           anchor == DrawingParts(namelist)[di].content[ai]
           cell_name == CellName(anchor.col, anchor.row)
           image_file ==
               DictGet(DictGet(drawing_to_rId_image, drawing_name, <<>>),
                       anchor.embed, "None")
           save_name == SaveName(sheet_name, cell_name, image_file)
       IN IF /\ anchor.blip
             /\ image_file # "None"
             /\ image_file # ""
             /\ HasPart(namelist, "xl/media", image_file, FALSE)
          THEN /\ image_files' =
                    DictSet(image_files, save_name,
                            PartAt(namelist, "xl/media", image_file, FALSE).content)
               /\ image_map' =
                    MapAppend(image_map, <<sheet_name, anchor.row + 1>>,
                              ImageDir \o save_name)
               /\ registered' =
                    Append(registered,
                           [sheet |-> sheet_name, cell |-> cell_name,
                            row |-> anchor.row + 1, file |-> image_file,
                            save_name |-> save_name])
          ELSE UNCHANGED <<image_files, image_map, registered>>
    /\ ai' = ai + 1
    /\ UNCHANGED <<inputVars, pc, err, resolveVars, di, sheet_name, tableVars,
                   outputVars, codecVars>>

\* the anchors of the drawing are exhausted: on to the next drawing part
NextDrawing ==
    /\ pc = "anchors"
    /\ ai > Len(DrawingParts(namelist)[di].content)
    /\ di' = di + 1
    /\ pc' = "drawings"
    /\ UNCHANGED <<inputVars, err, resolveVars, ai, sheet_name, image_map,
                   image_files, registered, tableVars, outputVars, codecVars>>

----------------------------------------------------------------------------
(* Table cells *)

\* an empty cell, as pandas reads it
NaN == [t |-> "nan", v |-> 0, s |-> ""]

\* a text cell
Text(s) == [t |-> "text", v |-> 0, s |-> s]

\* a numeric cell; v is the value in tenths (15 is 1.5)
Num(tenths) == [t |-> "num", v |-> tenths, s |-> ""]

\* an integer after astype(int)
IntCell(n) == [t |-> "int", v |-> n, s |-> ""]

notna(x) == x.t # "nan"

\* str(x) of a cell
Str(x) ==
    IF x.t = "text" THEN x.s
    ELSE IF x.t = "int" THEN ToString(x.v)
    ELSE IF x.t = "num" /\ x.v % 10 = 0 THEN ToString(x.v \div 10)
    ELSE IF x.t = "num" THEN ToString(x.v \div 10) \o "." \o ToString(x.v % 10)
    ELSE "nan"

Row(sheet, cls, item, no, q, a) ==
    [sheet |-> sheet, cls |-> cls, item |-> item, no |-> no, q |-> q, a |-> a]

\* df["シート名"] = sheet_name for every row of one sheet
RECURSIVE WithSheet(_, _)
WithSheet(rows, name) ==
    IF Len(rows) = 0 THEN <<>>
    ELSE <<Row(name, rows[1].cls, rows[1].item, rows[1].no, rows[1].q, rows[1].a)>>
         \o WithSheet(Tail(rows), name)

\* pd.concat(df_list, ignore_index=True)
RECURSIVE Concat(_)
Concat(sheets) ==
    IF Len(sheets) = 0 THEN <<>>
    ELSE WithSheet(sheets[1].rows, sheets[1].name) \o Concat(Tail(sheets))

\* the drawing parts are exhausted; read the sheets and concatenate them
ReadExcel ==
    /\ pc = "drawings"
    /\ di > Len(DrawingParts(namelist))
    /\ df_all' = Concat(excel_file)
    /\ pc' = "melt"
    /\ UNCHANGED <<inputVars, err, resolveVars, scanVars, df_filled, organized_df,
                   outputVars, codecVars>>

----------------------------------------------------------------------------
(* melt_merged_rows *)

Max(S) == CHOOSE x \in S : \A y \in S : y <= x

\* DataFrame.ffill on one column: the nearest non-blank value above, in the frame
FillAt(df, i, col) ==
    LET above == {j \in 1..i : notna(df[j][col])}
    IN IF above = {} THEN NaN ELSE df[Max(above)][col]

\* df_filled[["分類", "項目", "No."]] = df_filled[["分類", "項目", "No."]].ffill()
FFill(df) ==
    [i \in 1..Len(df) |->
        [df[i] EXCEPT !.cls = FillAt(df, i, "cls"),
                      !.item = FillAt(df, i, "item"),
                      !.no = FillAt(df, i, "no")]]

\* df["分類"].notna() without the cumsum
GrpNoCumsum(df, i) == IF notna(df[i].cls) THEN 1 ELSE 0

\* df["分類"].notna().cumsum() at position i
Grp(df, i) == Cardinality({j \in 1..i : notna(df[j].cls)})

\* df_filled.index + 2 at position i: the index of position i is i - 1
OriginalRow(i) == (i - 1) + 2

\* df_filled with its grp and original_row columns
Filled(df) ==
    [i \in 1..Len(df) |->
        [sheet |-> df[i].sheet,
         cls |-> FFill(df)[i].cls, item |-> FFill(df)[i].item, no |-> FFill(df)[i].no,
         q |-> df[i].q, a |-> df[i].a,
         grp |-> Grp(df, i), original_row |-> OriginalRow(i)]]

\* groupby("grp", sort=False): the keys in order of first appearance
RECURSIVE GroupKeys(_, _)
GroupKeys(dff, seen) ==
    IF Len(dff) = 0 THEN seen
    ELSE GroupKeys(Tail(dff),
            IF dff[1].grp \in Range(seen) THEN seen ELSE Append(seen, dff[1].grp))

RECURSIVE RowsOfGroup(_, _)
RowsOfGroup(dff, g) ==
    IF Len(dff) = 0 THEN <<>>
    ELSE (IF dff[1].grp = g THEN <<dff[1]>> ELSE <<>>) \o RowsOfGroup(Tail(dff), g)

\* GroupBy "first": the first non-blank value of the column in the group
RECURSIVE First(_, _)
First(rows, col) ==
    IF Len(rows) = 0 THEN NaN
    ELSE IF notna(rows[1][col]) THEN rows[1][col]
    ELSE First(Tail(rows), col)

\* s.dropna().astype(str)
RECURSIVE DropNaStr(_, _)
DropNaStr(rows, col) ==
    IF Len(rows) = 0 THEN <<>>
    ELSE (IF notna(rows[1][col]) THEN <<Str(rows[1][col])>> ELSE <<>>)
         \o DropNaStr(Tail(rows), col)

\* lambda s: "\n".join(s.dropna().astype(str))
JoinCol(rows, col) == JoinStr(DropNaStr(rows, col), "\n")

\* the aggregate of one group
AggGroup(rows) ==
    [sheet |-> rows[1].sheet,
     cls |-> First(rows, "cls"),
     item |-> First(rows, "item"),
     no |-> First(rows, "no"),
     q |-> JoinCol(rows, "q"),
     a |-> JoinCol(rows, "a"),
     original_row |-> [i \in 1..Len(rows) |-> rows[i].original_row]]

\* df_filled.groupby("grp", sort=False).agg({...}).reset_index(drop=True)
Aggregate(dff) ==
    LET keys == GroupKeys(dff, <<>>)
    IN [k \in 1..Len(keys) |-> AggGroup(RowsOfGroup(dff, keys[k]))]

\* int(x) succeeds: a number; a blank cell or non-numeric text raises ValueError
CanInt(x) == x.t = "num"

\* int(x) of a non-negative number: truncation
ToInt(x) == IntCell(x.v \div 10)

\* .astype({"No.": int}) on a frame where every No. converts
AsTypeInt(agg) == [k \in 1..Len(agg) |-> [agg[k] EXCEPT !.no = ToInt(agg[k].no)]]

\* organized_df = melt_merged_rows(df_all)
Melt ==
    /\ pc = "melt"
    /\ df_filled' = Filled(df_all)
    /\ LET agg == Aggregate(Filled(df_all))
       IN IF \A k \in 1..Len(agg) : CanInt(agg[k].no)
          THEN /\ organized_df' = AsTypeInt(agg)
               /\ pc' = "json"
               /\ UNCHANGED err
          ELSE /\ err' = "ValueError"
               /\ pc' = "error"
               /\ UNCHANGED organized_df
    /\ UNCHANGED <<inputVars, resolveVars, scanVars, df_all, outputVars, codecVars>>

----------------------------------------------------------------------------
(* JSON output *)

\* excel_path.stem, shortened to its first word
Stem == "FAQ"

\* the loop over image_map.items() with the sheet comparison left out
RECURSIVE ImagesAnySheet(_, _, _)
ImagesAnySheet(items, sheet, original_rows) ==
    IF Len(items) = 0 THEN <<>>
    ELSE (IF items[1].k[2] \in Range(original_rows) THEN items[1].v ELSE <<>>)
         \o ImagesAnySheet(Tail(items), sheet, original_rows)

\* for (img_sheet, img_row), paths in image_map.items(): images.extend(paths)
RECURSIVE Images(_, _, _)
Images(items, sheet, original_rows) ==
    IF Len(items) = 0 THEN <<>>
    ELSE (IF items[1].k[1] = sheet /\ items[1].k[2] \in Range(original_rows)
          THEN items[1].v ELSE <<>>)
         \o Images(Tail(items), sheet, original_rows)

\* json_name = f"{excel_path.stem}_{sheet}_QA_{no}.json"
JsonName(sheet, no) == Stem \o "_" \o sheet \o "_QA_" \o Str(no) \o ".json"

\* the dict dumped for one row of organized_df: original_row popped, image_urls set
Record(row, images) ==
    [sheet |-> row.sheet, cls |-> row.cls, item |-> row.item, no |-> row.no,
     q |-> row.q, a |-> row.a, image_urls |-> images]

\* for row in organized_df.to_dict(orient="records"): one record
WriteRecord ==
    /\ pc = "json"
    /\ ri <= Len(organized_df)
    /\ LET row == organized_df[ri]
           images == Images(image_map, row.sheet, row.original_row)
           json_name == JsonName(row.sheet, row.no)
       IN /\ json_files' = DictSet(json_files, json_name, Record(row, images))
          /\ written' = Append(written, [name |-> json_name,
                                         record |-> Record(row, images)])
    /\ ri' = ri + 1
    /\ UNCHANGED <<inputVars, pc, err, resolveVars, scanVars, tableVars, codecVars>>

\* the records are exhausted: the script ends
Finish ==
    /\ pc = "json"
    /\ ri > Len(organized_df)
    /\ pc' = "done"
    /\ UNCHANGED <<inputVars, err, resolveVars, scanVars, tableVars, outputVars,
                   codecVars>>

----------------------------------------------------------------------------
(* Input packages *)

\* most data rows per sheet in the tables explored
MaxRows == 2

\* most anchors in the first drawing part of the anchor families
MaxAnchors == 2

SheetNames == <<"A", "A_B1">>

MediaNames == <<"C1_x.png", "x.png">>

GapKinds == {"undeclared", "no_sheet_rels", "no_drawing_rel", "no_drawing_rels",
             "no_image_rel", "no_media"}

RId(i) == "rId" \o ToString(i)
SheetFile(i) == "sheet" \o ToString(i) \o ".xml"
DrawingFile(i) == "drawing" \o ToString(i) \o ".xml"

\* one sheet of a package: its place i in the workbook, the links missing for
\* it, and the anchors of its drawing
SheetCfg(i, gaps, anchors) == [i |-> i, gaps |-> gaps, anchors |-> anchors]

Opt(present, part) == IF present THEN <<part>> ELSE <<>>

RECURSIVE SheetDecls(_)
SheetDecls(cfgs) ==
    IF Len(cfgs) = 0 THEN <<>>
    ELSE Opt("undeclared" \notin cfgs[1].gaps,
             SheetDecl(RId(cfgs[1].i), SheetNames[cfgs[1].i]))
         \o SheetDecls(Tail(cfgs))

RECURSIVE WorksheetRels(_)
WorksheetRels(cfgs) ==
    IF Len(cfgs) = 0 THEN <<Rel("rId9", "styles", <<"styles.xml">>)>>
    ELSE <<Rel(RId(cfgs[1].i), "worksheet", <<"worksheets", SheetFile(cfgs[1].i)>>)>>
         \o WorksheetRels(Tail(cfgs))

\* every drawing's relationship file names both media files, under ids that
\* are the workbook's ids too: relationship ids are local to the owning part
ImageRels(gaps) ==
    Opt("no_image_rel" \notin gaps, Rel("rId1", "image", <<"..", "media", MediaNames[1]>>))
    \o <<Rel("rId2", "image", <<"..", "media", MediaNames[2]>>)>>

RECURSIVE SheetParts(_)
SheetParts(cfgs) ==
    IF Len(cfgs) = 0 THEN <<>>
    ELSE LET c == cfgs[1] IN
         Opt("no_sheet_rels" \notin c.gaps,
             Part("xl/worksheets/_rels", SheetFile(c.i), TRUE,
                  <<IF "no_drawing_rel" \in c.gaps
                    THEN Rel("rId1", "hyperlink", <<"http:", "example">>)
                    ELSE Rel("rId1", "drawing", <<"..", "drawings", DrawingFile(c.i)>>)>>))
         \o <<Part("xl/drawings", DrawingFile(c.i), FALSE, c.anchors)>>
         \o Opt("no_drawing_rels" \notin c.gaps,
                 Part("xl/drawings/_rels", DrawingFile(c.i), TRUE, ImageRels(c.gaps)))
         \o SheetParts(Tail(cfgs))

\* the media parts: the first is missing when some sheet's media is missing
MediaParts(cfgs) ==
    Opt(\A k \in 1..Len(cfgs) : "no_media" \notin cfgs[k].gaps,
        Part("xl/media", MediaNames[1], FALSE, <<"bytes1">>))
    \o <<Part("xl/media", MediaNames[2], FALSE, <<"bytes2">>)>>

\* z.namelist() of a package
Package(hasWorkbook, hasWorkbookRels, cfgs) ==
    Opt(hasWorkbook, Part("xl", "workbook.xml", FALSE, SheetDecls(cfgs)))
    \o Opt(hasWorkbookRels, Part("xl/_rels", "workbook.xml", TRUE, WorksheetRels(cfgs)))
    \o SheetParts(cfgs)
    \o MediaParts(cfgs)

----------------------------------------------------------------------------
(* Input tables *)

\* the shape of a data row: which cells are filled, and the No. cell
Shapes(clsS, itemS, noS, qS, aS) ==
    [cls : clsS, item : itemS, no : noS, q : qS, a : aS]

\* the row of a shape: every text is the row's own
RowOf(shape, tag) ==
    [cls |-> IF shape.cls THEN Text("c" \o tag) ELSE NaN,
     item |-> IF shape.item THEN Text("i" \o tag) ELSE NaN,
     no |-> shape.no,
     q |-> IF shape.q THEN Text("q" \o tag) ELSE NaN,
     a |-> IF shape.a THEN Text("a" \o tag) ELSE NaN]

\* the data rows of sheet i for a sequence of shapes
RowsOf(shapes, i) ==
    [k \in 1..Len(shapes) |-> RowOf(shapes[k], ToString(i) \o ToString(k))]

\* the sequences over S of length lo..hi
SeqsOf(S, lo, hi) == UNION {[1..n -> S] : n \in lo..hi}

\* what read_excel returns for two sheets
TwoSheets(shapes1, shapes2) ==
    <<[name |-> SheetNames[1], rows |-> RowsOf(shapes1, 1)],
      [name |-> SheetNames[2], rows |-> RowsOf(shapes2, 2)]>>

----------------------------------------------------------------------------
(* Specifications *)

\* no run of the script has ended yet
NoRun == [ran |-> FALSE, err |-> "none", images |-> <<>>, jsons |-> <<>>]

\* the script's variables as the interpreter starts it
ScriptInit(start) ==
    /\ pc = start
    /\ err = "none"
    /\ sheet_id_to_name = <<>>
    /\ rId_to_sheet_file = <<>>
    /\ sheet_to_drawing = <<>>
    /\ drawing_to_rId_image = <<>>
    /\ di = 1
    /\ ai = 1
    /\ sheet_name = ""
    /\ image_map = <<>>
    /\ image_files = <<>>
    /\ registered = <<>>
    /\ df_all = <<>>
    /\ df_filled = <<>>
    /\ organized_df = <<>>
    /\ ri = 1
    /\ written = <<>>
    /\ json_files = <<>>
    /\ previous = NoRun

PlainShape == [cls |-> TRUE, item |-> TRUE, no |-> Num(10), q |-> TRUE, a |-> TRUE]

\* packages with links missing, over a plain table
InitGaps ==
    /\ \E g1 \in SUBSET (GapKinds \ {"undeclared"}),
          g2 \in {{}} \cup {{g} : g \in GapKinds},
          wb \in {"ok", "no_workbook", "no_workbook_rels"},
          blip \in BOOLEAN :
          /\ namelist =
               Package(wb # "no_workbook", wb # "no_workbook_rels",
                       <<SheetCfg(1, g1, <<Anchor(0, 1, blip, "rId1"),
                                           Anchor(1, 2, TRUE, "rId2")>>),
                         SheetCfg(2, g2, <<Anchor(0, 1, TRUE, "rId1")>>)>>)
          /\ excel_file =
               SubSeq(TwoSheets(<<PlainShape, PlainShape>>, <<PlainShape>>),
                      1, IF "undeclared" \in g2 THEN 1 ELSE 2)
    /\ ScriptInit("workbook")
    /\ CodecIdle

\* a fully linked package with one image on the first data row of each sheet
LinkedPackage(anchors1, anchors2) ==
    Package(TRUE, TRUE, <<SheetCfg(1, {}, anchors1), SheetCfg(2, {}, anchors2)>>)

\* the shapes of one table: question/answer cells, the filled columns, or the
\* No. cell varies
MeltShapeSets ==
    {Shapes(BOOLEAN, {TRUE}, {Num(10)}, BOOLEAN, BOOLEAN),
     Shapes(BOOLEAN, BOOLEAN, {NaN, Num(10)}, {TRUE}, {FALSE}),
     Shapes(BOOLEAN, {TRUE}, {NaN, Num(10), Num(20), Num(15), Text("x")},
            {TRUE}, {FALSE})}

\* two-sheet tables of every shape, over a fully linked package
InitMelt ==
    /\ namelist = LinkedPackage(<<Anchor(0, 1, TRUE, "rId1")>>,
                                <<Anchor(0, 1, TRUE, "rId2")>>)
    /\ \E n1 \in 1..MaxRows, n2 \in 1..MaxRows, S \in MeltShapeSets :
          /\ n1 + n2 <= MaxRows + 1
          /\ \E s1 \in [1..n1 -> S], s2 \in [1..n2 -> S] :
                excel_file = TwoSheets(s1, s2)
    /\ ScriptInit("workbook")
    /\ CodecIdle

JoinAnchors == {Anchor(1, r, TRUE, e) : r \in 1..2, e \in {"rId1", "rId2"}}

JoinShapes == Shapes(BOOLEAN, {TRUE}, {Num(10)}, {TRUE}, {TRUE})

\* images anchored on and off the rows of small tables
InitJoin ==
    /\ \E a1 \in SeqsOf(JoinAnchors, 1, MaxAnchors), a2 \in SeqsOf(JoinAnchors, 1, 1) :
          namelist = LinkedPackage(a1, a2)
    /\ \E s1 \in SeqsOf(JoinShapes, 1, MaxRows), s2 \in SeqsOf(JoinShapes, 1, 1) :
          excel_file = TwoSheets(s1, s2)
    /\ ScriptInit("workbook")
    /\ CodecIdle

NameAnchors == {Anchor(c, 0, TRUE, e) : c \in 1..2, e \in {"rId1", "rId2"}}

\* images anchored at the cells B1 and C1 of both sheets, over a plain table
InitNames ==
    /\ \E a1 \in SeqsOf(NameAnchors, 1, MaxAnchors), a2 \in SeqsOf(NameAnchors, 1, 1) :
          namelist = LinkedPackage(a1, a2)
    /\ excel_file = TwoSheets(<<PlainShape>>, <<PlainShape>>)
    /\ ScriptInit("workbook")
    /\ CodecIdle

\* two groups of one sheet under one No., and two sheets' images under one
\* save name
InitCollide ==
    /\ namelist = LinkedPackage(<<Anchor(1, 0, TRUE, "rId1"), Anchor(0, 2, TRUE, "rId2")>>,
                                <<Anchor(2, 0, TRUE, "rId2")>>)
    /\ \E s1 \in SeqsOf(JoinShapes, 1, MaxRows), s2 \in SeqsOf(JoinShapes, 1, 1) :
          excel_file = TwoSheets(s1, s2)
    /\ ScriptInit("workbook")
    /\ CodecIdle

InitRerun == InitGaps \/ InitCollide

GroupShapes == Shapes(BOOLEAN, {TRUE}, {Num(10)}, {TRUE}, {FALSE})

\* tables in which only the classification cell is filled or blank, over a
\* fully linked package with images on three rows
InitGroups ==
    /\ namelist = LinkedPackage(<<Anchor(0, 1, TRUE, "rId1"), Anchor(0, 2, TRUE, "rId2")>>,
                                <<Anchor(0, 3, TRUE, "rId1")>>)
    /\ \E s1 \in SeqsOf(GroupShapes, 1, MaxRows + 1), s2 \in SeqsOf(GroupShapes, 1, MaxRows) :
          excel_file = TwoSheets(s1, s2)
    /\ ScriptInit("workbook")
    /\ CodecIdle

\* the script started again after a run ended, with a fresh interpreter state
\* that keeps the index of the run before
RerunKeepingIndex ==
    /\ pc \in {"done", "error"}
    /\ ~previous.ran
    /\ previous' = [ran |-> TRUE, err |-> err, images |-> image_files,
                    jsons |-> json_files]
    /\ pc' = "workbook"
    /\ err' = "none"
    /\ sheet_id_to_name' = <<>>
    /\ rId_to_sheet_file' = <<>>
    /\ sheet_to_drawing' = <<>>
    /\ drawing_to_rId_image' = <<>>
    /\ di' = 1
    /\ ai' = 1
    /\ sheet_name' = ""
    /\ registered' = <<>>
    /\ df_all' = <<>>
    /\ df_filled' = <<>>
    /\ organized_df' = <<>>
    /\ ri' = 1
    /\ written' = <<>>
    /\ UNCHANGED <<namelist, excel_file, image_map, image_files, json_files, codecVars>>

\* the script started again after a run ended: json_output_dir.mkdir and
\* image_output_dir.mkdir with exist_ok=True keep the files of the earlier
\* run, and every variable of the script starts afresh
Rerun ==
    /\ pc \in {"done", "error"}
    /\ ~previous.ran
    /\ previous' = [ran |-> TRUE, err |-> err, images |-> image_files,
                    jsons |-> json_files]
    /\ pc' = "workbook"
    /\ err' = "none"
    /\ sheet_id_to_name' = <<>>
    /\ rId_to_sheet_file' = <<>>
    /\ sheet_to_drawing' = <<>>
    /\ drawing_to_rId_image' = <<>>
    /\ di' = 1
    /\ ai' = 1
    /\ sheet_name' = ""
    /\ image_map' = <<>>
    /\ registered' = <<>>
    /\ df_all' = <<>>
    /\ df_filled' = <<>>
    /\ organized_df' = <<>>
    /\ ri' = 1
    /\ written' = <<>>
    /\ UNCHANGED <<namelist, excel_file, image_files, json_files, codecVars>>

\* the column codec on its own
InitCodec ==
    /\ namelist = <<>>
    /\ excel_file = <<>>
    /\ ScriptInit("idle")
    /\ CodecInit

Init == InitGaps \/ InitMelt \/ InitJoin \/ InitNames

Next ==
    \/ ReadWorkbook
    \/ ReadWorkbookRels
    \/ ScanSheetRels
    \/ ScanDrawingRels
    \/ ResolveDrawing
    \/ ProcessAnchor
    \/ NextDrawing
    \/ ReadExcel
    \/ Melt
    \/ WriteRecord
    \/ Finish

NextRerun ==
    \/ Next
    \/ Rerun

NextCodec ==
    \/ CodecLoop /\ UNCHANGED <<inputVars, pc, err, resolveVars, scanVars, tableVars,
                                outputVars>>
    \/ CodecReturn /\ UNCHANGED <<inputVars, pc, err, resolveVars, scanVars, tableVars,
                                  outputVars>>

Spec == Init /\ [][Next]_vars

SpecGaps == InitGaps /\ [][Next]_vars

SpecMelt == InitMelt /\ [][Next]_vars

SpecJoin == InitJoin /\ [][Next]_vars

SpecNames == InitNames /\ [][Next]_vars

SpecRerun == InitRerun /\ [][NextRerun]_vars

SpecGroups == InitGroups /\ [][Next]_vars

\* the loop is one thread of control: it keeps running until it returns
SpecCodec == InitCodec /\ [][NextCodec]_vars /\ WF_vars(NextCodec)

----------------------------------------------------------------------------
(* Column codec: round trip *)

\* the digit of a letter: A=1 .. Z=26
LetterValue(ch) == CHOOSE k \in 1..26 : Alphabet[k] = ch

\* positional base 26 over the digits 1..26, most significant letter first
RECURSIVE Positional(_, _)
Positional(letters, acc) ==
    IF Len(letters) = 0 THEN acc
    ELSE Positional(Tail(letters), acc * 26 + LetterValue(letters[1]))

\* the column index of a letter string
Decode(letters) == Positional(letters, 0) - 1

CodecCases ==
    /\ codec_n = 0 => JoinStr(result, "") = "A"
    /\ codec_n = 25 => JoinStr(result, "") = "Z"
    /\ codec_n = 26 => JoinStr(result, "") = "AA"
    /\ codec_n = 701 => JoinStr(result, "") = "ZZ"
    /\ codec_n = 702 => JoinStr(result, "") = "AAA"

\* C9: for every n in 0..MaxCol the loop of colnum_to_excel_col terminates, the
\* letters it returns decode (A=1..Z=26, positional base 26, minus 1) to n, and
\* 0, 25, 26, 701, 702 give "A", "Z", "AA", "ZZ", "AAA".
C9_CodecRoundTrip ==
    /\ [](codec_pc = "done" =>
            /\ Decode(result) = codec_n
            /\ JoinStr(result, "") = colnum_to_excel_col(codec_n)
            /\ CodecCases)
    /\ <>(codec_pc = "done")

C9_Witness == codec_pc = "done" /\ codec_n = 702 /\ JoinStr(result, "") = "AAA"

----------------------------------------------------------------------------
(* Row numbers, forward fill and grouping across sheets *)

Melted == pc \in {"json", "done"}

MeltRan == pc \in {"json", "done", "error"} /\ Len(df_filled) > 0

\* the ascending list of a finite set of integers
RECURSIVE Ascending(_)
Ascending(S) ==
    IF S = {} THEN <<>>
    ELSE LET m == CHOOSE x \in S : \A y \in S : x <= y
         IN <<m>> \o Ascending(S \ {m})

\* the on-sheet number of the row at position i of the concatenated table: the
\* k-th data row of its sheet, k from 0, has number k + 2
OnSheetNumber(df, i) ==
    Cardinality({j \in 1..i : df[j].sheet = df[i].sheet}) + 1

\* the positions in the concatenated table of the rows of the g-th group
PositionsOfGroup(dff, g) ==
    {i \in 1..Len(dff) : dff[i].grp = GroupKeys(dff, <<>>)[g]}

\* the g-th group's rows, by their on-sheet numbers
OnSheetRows(dff, g) ==
    LET pos == Ascending(PositionsOfGroup(dff, g))
    IN [n \in 1..Len(pos) |-> OnSheetNumber(dff, pos[n])]

\* the index of the group that holds the row at position i
GroupOfPosition(dff, i) ==
    CHOOSE g \in 1..Len(GroupKeys(dff, <<>>)) : i \in PositionsOfGroup(dff, g)

\* every sheet of the table starts with a row whose classification, item and
\* No. cells are filled
HeadsFilled(df) ==
    \A i \in 1..Len(df) :
        (i = 1 \/ df[i - 1].sheet # df[i].sheet)
            => notna(df[i].cls) /\ notna(df[i].item) /\ notna(df[i].no)

\* every sheet starts with a filled classification cell, and every row with a
\* classification has its No. cell filled
GroupsNumbered(df) ==
    \A i \in 1..Len(df) :
        /\ (i = 1 \/ df[i - 1].sheet # df[i].sheet) => notna(df[i].cls)
        /\ notna(df[i].cls) => notna(df[i].no)

\* C1 (on tables whose sheets start with filled rows, so that no other defect
\* takes part): every Merge Group's originalRows is the ascending list of the on-sheet
\* row numbers (k + 2 for the k-th data row of its sheet) of its rows, and an
\* image anchored at on-sheet row r of sheet S is in the record of the group of
\* S that contains row r.
C1_OnSheetRowNumbers ==
    HeadsFilled(df_all) =>
    /\ Melted =>
          \A g \in 1..Len(organized_df) :
              organized_df[g].original_row = OnSheetRows(df_filled, g)
    /\ pc = "done" =>
          \A e \in 1..Len(image_map), i \in 1..Len(df_all) :
              /\ df_all[i].sheet = image_map[e].k[1]
              /\ OnSheetNumber(df_all, i) = image_map[e].k[2]
              => Range(image_map[e].v)
                   \subseteq Range(written[GroupOfPosition(df_filled, i)].record.image_urls)

\* the nearest non-blank value above position i among the rows of i's sheet
SheetFillAt(df, i, col) ==
    LET above == {j \in 1..i : df[j].sheet = df[i].sheet /\ notna(df[j][col])}
    IN IF above = {} THEN NaN ELSE df[Max(above)][col]

\* C2 (on tables whose sheets start with a filled classification cell): forward
\* fill of classification, item and sequence number never crosses
\* a sheet boundary: a blank cell takes the nearest non-blank value above it
\* among the rows of its own sheet only.
C2_FillStaysInSheet ==
    MeltRan /\ (\A i \in 1..Len(df_all) :
                   (i = 1 \/ df_all[i - 1].sheet # df_all[i].sheet) => notna(df_all[i].cls)) =>
        \A i \in 1..Len(df_filled) :
            /\ df_filled[i].cls = SheetFillAt(df_all, i, "cls")
            /\ df_filled[i].item = SheetFillAt(df_all, i, "item")
            /\ df_filled[i].no = SheetFillAt(df_all, i, "no")

\* position i holds the first row of its sheet
FirstOfSheet(df, i) == i = 1 \/ df[i - 1].sheet # df[i].sheet

\* C3: when the first row of any sheet has a blank classification cell the
\* melt fails: it produces no Merge Group, whatever the row's No. cell holds.
C3_LeadingBlankFails ==
    (\E i \in 1..Len(df_all) : FirstOfSheet(df_all, i) /\ ~notna(df_all[i].cls))
        => ~Melted

\* x is a whole number
Integral(x) == x.t = "num" /\ x.v % 10 = 0

\* C4 (on tables where every group's first row carries its No.): when a group's sequence number after forward fill is not representable
\* as an integer (text, absent, non-integral) the run aborts before any record
\* is written: no record carries a guessed, truncated or null number.
C4_NoGuessedNumber ==
    GroupsNumbered(df_all) =>
    /\ MeltRan /\ (\E g \in 1..Len(Aggregate(df_filled)) :
                      ~Integral(Aggregate(df_filled)[g].no))
          => pc = "error" /\ written = <<>> /\ json_files = <<>>
    /\ \A w \in 1..Len(written) :
          /\ written[w].record.no.t = "int"
          /\ Aggregate(df_filled)[w].no = Num(10 * written[w].record.no.v)

\* C8 (on tables where every group's first row carries its No.): a completed run leaves one record file per Merge Group: distinct groups
\* have distinct file names, so no record overwrites another.
C8_OneFilePerGroup ==
    pc = "done" /\ GroupsNumbered(df_all) =>
        /\ Len(json_files) = Len(organized_df)
        /\ \A g, h \in 1..Len(written) : g # h => written[g].name # written[h].name

----------------------------------------------------------------------------
(* The melt as one sequential pass *)

\* x if it is filled, else the value carried
Carry(x, last) == IF notna(x) THEN x ELSE last

\* the pass after the row at position i: the last-seen values of the three
\* identifying columns, the running group counter, and the groups so far, the
\* question and answer texts kept as lists
RECURSIVE Pass(_, _)
Pass(df, i) ==
    IF i = 0
    THEN [cls |-> NaN, item |-> NaN, no |-> NaN, counter |-> 0, groups |-> <<>>]
    ELSE LET before == Pass(df, i - 1)
             row == df[i]
             cls == Carry(row.cls, before.cls)
             item == Carry(row.item, before.item)
             no == Carry(row.no, before.no)
             qs == IF notna(row.q) THEN <<Str(row.q)>> ELSE <<>>
             as == IF notna(row.a) THEN <<Str(row.a)>> ELSE <<>>
             n == Len(before.groups)
         IN IF notna(row.cls) \/ n = 0
            THEN [cls |-> cls, item |-> item, no |-> no,
                  counter |-> before.counter + (IF notna(row.cls) THEN 1 ELSE 0),
                  groups |-> Append(before.groups,
                      [sheet |-> row.sheet, cls |-> cls, item |-> item, no |-> no,
                       q |-> qs, a |-> as, original_row |-> <<OriginalRow(i)>>])]
            ELSE [cls |-> cls, item |-> item, no |-> no,
                  counter |-> before.counter,
                  groups |-> [before.groups EXCEPT
                      ![n].q = @ \o qs, ![n].a = @ \o as,
                      ![n].original_row = Append(@, OriginalRow(i))]]

\* the Merge Groups of the sequential pass, the texts joined by newline
SequentialMelt(df) ==
    LET groups == Pass(df, Len(df)).groups
    IN [g \in 1..Len(groups) |->
           [groups[g] EXCEPT !.q = JoinStr(@, "\n"), !.a = JoinStr(@, "\n")]]

\* C10 (on tables whose sheets start with a filled classification cell): the
\* forward fill, cumulative count and group-by aggregate give the groups of one
\* sequential pass that carries the last-seen values and a group counter: each
\* filled-classification row with the blank-classification rows after it is one
\* group, its question and answer the newline joins of the filled cells, its
\* classification, item and No. the post-fill values of its first row.
C10_EqualsSequentialPass ==
    MeltRan /\ (\A i \in 1..Len(df_all) :
                   (i = 1 \/ df_all[i - 1].sheet # df_all[i].sheet) => notna(df_all[i].cls))
        => Aggregate(df_filled) = SequentialMelt(df_all)

----------------------------------------------------------------------------
(* Relationship gaps, the image index and the names *)

\* C5: with the workbook part and the workbook's relationship file present,
\* relationship resolution never raises, whichever links of steps 2-4 are
\* absent: an undeclared worksheet relationship id, a sheet without
\* relationship file or drawing relationship, a drawing without relationship
\* file, an embed id without image relationship.
C5_GapsNeverRaise ==
    /\ HasPart(namelist, "xl", "workbook.xml", FALSE)
    /\ HasPart(namelist, "xl/_rels", "workbook.xml", TRUE)
    => err # "KeyError"

\* the index entry e is attached to the group: same sheet, row among its rows
Attached(entry, group) ==
    entry.k[1] = group.sheet /\ entry.k[2] \in Range(group.original_row)

\* the position in the scan log of the first image saved under a key
FirstSaved(key) ==
    CHOOSE n \in 1..Len(registered) :
        /\ <<registered[n].sheet, registered[n].row>> = key
        /\ \A m \in 1..(n - 1) : <<registered[m].sheet, registered[m].row>> # key

\* the saved paths of the images logged under a key, in scan order
RECURSIVE PathsLogged(_, _)
PathsLogged(log, key) ==
    IF Len(log) = 0 THEN <<>>
    ELSE (IF <<log[1].sheet, log[1].row>> = key
          THEN <<ImageDir \o log[1].save_name>> ELSE <<>>)
         \o PathsLogged(Tail(log), key)

\* C6: every record's image list is the concatenation, in the order the
\* (sheet, row) keys were first inserted into the image index, of the path
\* lists of exactly the entries of the record's sheet whose row is among the
\* group's originalRows; the paths of one key keep anchor-scan order, and an
\* entry attached to no group is part of no record.
C6_ImagesByIndexOrder ==
    /\ \A w \in 1..Len(written) :
          written[w].record.image_urls =
              Flatten([e \in 1..Len(image_map) |->
                          IF Attached(image_map[e], organized_df[w])
                          THEN image_map[e].v ELSE <<>>])
    /\ \A e \in 1..Len(image_map) :
          /\ image_map[e].v = PathsLogged(registered, image_map[e].k)
          /\ image_map[e].v # <<>>
          /\ \A f \in 1..Len(image_map) :
                e < f => FirstSaved(image_map[e].k) < FirstSaved(image_map[f].k)
    /\ \A n \in 1..Len(registered) :
          DictHas(image_map, <<registered[n].sheet, registered[n].row>>)

\* a finished run where one record took the images of two index entries, in
\* index order, and another entry is attached to no group
C6_Witness ==
    /\ pc = "done"
    /\ \E w \in 1..Len(written), e, f \in 1..Len(image_map) :
          /\ e < f
          /\ Attached(image_map[e], organized_df[w])
          /\ Attached(image_map[f], organized_df[w])
          /\ written[w].record.image_urls = image_map[e].v \o image_map[f].v
    /\ \E e \in 1..Len(image_map) :
          \A g \in 1..Len(organized_df) : ~Attached(image_map[e], organized_df[g])

\* C7: two saved images anchored at different cells (another sheet, or the same
\* sheet and another cell label) have different save names.
C7_SaveNamesDistinct ==
    \A m, n \in 1..Len(registered) :
        (registered[m].sheet # registered[n].sheet \/ registered[m].cell # registered[n].cell)
            => registered[m].save_name # registered[n].save_name

----------------------------------------------------------------------------
(* Missing workbook parts *)

WorkbookMissing ==
    \/ ~HasPart(namelist, "xl", "workbook.xml", FALSE)
    \/ ~HasPart(namelist, "xl/_rels", "workbook.xml", TRUE)

\* C11: when the workbook part or the workbook's relationship file is missing
\* from the archive, the run aborts with an error before any image file is
\* saved, any image index entry is added or any record file is written.
C11_MissingWorkbookAborts ==
    WorkbookMissing =>
        /\ pc \in {"workbook", "workbook_rels", "error"}
        /\ pc = "workbook_rels" => HasPart(namelist, "xl", "workbook.xml", FALSE)
        /\ pc = "error" => err = "KeyError"
        /\ image_files = <<>>
        /\ image_map = <<>>
        /\ registered = <<>>
        /\ written = <<>>
        /\ json_files = <<>>

\* the run aborted on the missing relationship file, the workbook part read
C11_Witness ==
    /\ HasPart(namelist, "xl", "workbook.xml", FALSE)
    /\ ~HasPart(namelist, "xl/_rels", "workbook.xml", TRUE)
    /\ pc = "error"
    /\ err = "KeyError"
    /\ Len(sheet_id_to_name) = 2

----------------------------------------------------------------------------
(* The anchor scan, read off the package *)

\* the name of the sheet that owns a drawing part, "" when no declared sheet
\* links to it
SheetNameOf(names, drawing_name) ==
    LET wb == PartAt(names, "xl", "workbook.xml", FALSE).content
        wr == PartAt(names, "xl/_rels", "workbook.xml", TRUE).content
        Links == {l \in (1..Len(wb)) \X (1..Len(wr)) \X (1..Len(names)) :
                    /\ wr[l[2]].Type = "worksheet"
                    /\ wb[l[1]].rid = wr[l[2]].Id
                    /\ IsSheetRels(names[l[3]])
                    /\ names[l[3]].name = Basename(wr[l[2]].Target)
                    /\ \E r \in Range(names[l[3]].content) :
                          r.Type = "drawing" /\ Basename(r.Target) = drawing_name}
    IN IF Links = {} THEN "" ELSE wb[(CHOOSE l \in Links : TRUE)[1]].name

\* the media files an anchor's image reference resolves to
MediaOf(names, drawing_name, anchor) ==
    {Basename(r.Target) :
        r \in {q \in UNION {Range(names[k].content) :
                              k \in {j \in 1..Len(names) :
                                        /\ IsDrawingRels(names[j])
                                        /\ names[j].name = drawing_name}} :
                  q.Type = "image" /\ q.Id = anchor.embed}}

NoBlip(d, a) == ~DrawingParts(namelist)[d].content[a].blip

\* the scan is past anchor a of drawing d
Passed(d, a) == d < di \/ (d = di /\ pc = "anchors" /\ a < ai)

\* what anchor a of drawing d yields: nothing, or one image under the key
\* (sheet, row + 1) with the cell label of its column and row + 1
Yield(d, a) ==
    LET part == DrawingParts(namelist)[d]
        anchor == part.content[a]
        sheet == SheetNameOf(namelist, part.name)
        files == {f \in MediaOf(namelist, part.name, anchor) :
                    HasPart(namelist, "xl/media", f, FALSE)}
    IN IF sheet = "" \/ ~anchor.blip \/ files = {} THEN <<>>
       ELSE <<[sheet |-> sheet, row |-> anchor.row + 1,
               cell |-> colnum_to_excel_col(anchor.col) \o ToString(anchor.row + 1),
               file |-> CHOOSE f \in files : TRUE]>>

\* the yields of the anchors the scan is past, in scan order
RECURSIVE ScanLog(_, _)
ScanLog(d, a) ==
    IF d > Len(DrawingParts(namelist)) THEN <<>>
    ELSE IF a > Len(DrawingParts(namelist)[d].content) THEN ScanLog(d + 1, 1)
    ELSE IF ~Passed(d, a) THEN <<>>
    ELSE Yield(d, a) \o ScanLog(d, a + 1)

LogEntry(e) == [sheet |-> e.sheet, row |-> e.row, cell |-> e.cell, file |-> e.file]

\* C12: the anchor scan skips without aborting: an anchor with no image
\* reference and an anchor whose media file is not in the package save no file
\* and add no index entry, every other anchor of the drawing and of the later
\* drawings is processed and yields the key (sheet, row + 1) and the cell label
\* of its column followed by row + 1, and the scan is only ever ended by the
\* sheet lookup of a drawing, never by an anchor.
C12_SkipsWithoutAborting ==
    /\ [k \in 1..Len(registered) |-> LogEntry(registered[k])] = ScanLog(1, 1)
    /\ {e.k : e \in Range(image_files)} = {r.save_name : r \in Range(registered)}
    /\ {e.k : e \in Range(image_map)} = {<<r.sheet, r.row>> : r \in Range(registered)}
    /\ \A e \in Range(image_map) :
          Len(e.v) = Cardinality({k \in 1..Len(registered) :
                                    <<registered[k].sheet, registered[k].row>> = e.k})
    /\ (pc = "error" /\ ~WorkbookMissing) =>
          /\ di <= Len(DrawingParts(namelist))
          /\ ~DictHas(sheet_id_to_name,
                      FirstRIdFor(rId_to_sheet_file, sheet_to_drawing,
                                  DrawingParts(namelist)[di].name))

\* the first anchor of the first drawing had no image reference; the second
\* anchor of that drawing and the anchor of the second drawing were saved
C12_Witness ==
    /\ pc = "done"
    /\ NoBlip(1, 1)
    /\ Len(registered) = 2
    /\ LogEntry(registered[1]) =
         [sheet |-> "A", row |-> 3, cell |-> "B3", file |-> "x.png"]
    /\ LogEntry(registered[2]) =
         [sheet |-> "A_B1", row |-> 2, cell |-> "A2", file |-> "C1_x.png"]
    /\ Len(image_map) = 2
    /\ Len(image_files) = 2

----------------------------------------------------------------------------
(* Running the script twice *)

SameFiles(d, e) ==
    /\ Range(d) = Range(e)
    /\ Cardinality({x.k : x \in Range(d)}) = Len(d)
    /\ Len(d) = Len(e)

\* C13: a second run over the same workbook, started on the output
\* directories the first run left, ends the way the first did with the same
\* image file names holding the same bytes and the same record files holding
\* the same content, the order of every image list included.
C13_SecondRunSameOutput ==
    (previous.ran /\ pc \in {"done", "error"}) =>
        /\ err = previous.err
        /\ SameFiles(image_files, previous.images)
        /\ SameFiles(json_files, previous.jsons)

\* the second run ended after writing two images under one save name and two
\* records under one file name, one record with an image
C13_Witness ==
    /\ previous.ran
    /\ pc = "done"
    /\ Len(registered) > Len(image_files)
    /\ Len(written) > Len(json_files)
    /\ \E f \in Range(json_files) : Len(f.v.image_urls) > 0

----------------------------------------------------------------------------
(* Melting: no row lost, no row twice *)

Consecutive(rows) ==
    /\ Len(rows) >= 1
    /\ \A k \in 1..(Len(rows) - 1) : rows[k + 1] = rows[k] + 1

GroupsAttached(entry) ==
    {g \in 1..Len(organized_df) : Attached(entry, organized_df[g])}

\* C14: melting loses and duplicates no row: the original_row lists of the
\* groups are pairwise disjoint, each is a run of consecutive rows, together
\* they are the rows of the input table (numbered from 2, after the header),
\* the groups come in the order of their first row, and so every image index
\* entry is attached to at most one record.
C14_GroupsPartitionRows ==
    Melted =>
        /\ \A g \in 1..Len(organized_df) : Consecutive(organized_df[g].original_row)
        /\ \A g, h \in 1..Len(organized_df) :
              g # h => Range(organized_df[g].original_row)
                         \cap Range(organized_df[h].original_row) = {}
        /\ UNION {Range(organized_df[g].original_row) : g \in 1..Len(organized_df)}
             = {i + 1 : i \in 1..Len(df_all)}
        /\ \A g, h \in 1..Len(organized_df) :
              g < h => organized_df[g].original_row[1] < organized_df[h].original_row[1]
        /\ \A e \in 1..Len(image_map) : Cardinality(GroupsAttached(image_map[e])) <= 1

\* three groups or more, one of several rows, and an image in one record
C14_Witness ==
    /\ pc = "done"
    /\ Len(organized_df) >= 3
    /\ \E g \in 1..Len(organized_df) : Len(organized_df[g].original_row) >= 2
    /\ \E e \in 1..Len(image_map) : Cardinality(GroupsAttached(image_map[e])) = 1
    /\ \E w \in 1..Len(written) : Len(written[w].record.image_urls) >= 1

====
